---- MODULE Spec2Model ----
(***************************************************************************)
(* A model of token_storage_slot_finder: the slot finder                   *)
(* (src/src/token_storage.py), the override synthesizer                    *)
(* (src/src/storage_overrides.py), the transferFrom prober                 *)
(* (src/src/transfer_from_sim.py) and the driver (src/main.py).            *)
(*                                                                         *)
(* Conventions of the model                                                *)
(*  - An optional value (Python None or a value) is a sequence of length   *)
(*    0 or 1: None is <<>>, the value x is <<x>>.                          *)
(*  - A 32-byte word is the 1-tuple <<n>> of its big-endian integer value; *)
(*    the concatenation of two words is the pair of them and a keccak      *)
(*    digest is represented by its preimage (hashing is collision free).   *)
(*  - Addresses are integers; token amounts are counted in units of 10^18  *)
(*    (one whole token of 18 decimals).                                    *)
(*  - The forked chain is a family of contract behaviours (Kinds) drawn    *)
(*    per token at Init; faults of the node are inputs of each call.       *)
(***************************************************************************)
EXTENDS Integers, Sequences, FiniteSets, TLC

\* ------------------------------------------------------------------------
\* Bounds of the model
\* ------------------------------------------------------------------------

\* Number of candidate slots the finder tries (token_storage.py:52 sets 310;
\* the search is a loop over range(MAX_SLOT), scaled down here).
MAX_SLOT == 3

\* Tokens per batch (main.py:63 cuts the list in chunks of 30; scaled down).
ChunkSize == 2

\* Number of successive driver processes (runs of main) that are modelled.
MaxRuns == 2

\* A node fault hits one of the first MaxFaultAt probes of a finder call.
MaxFaultAt == 1

\* Number of node faults over the modelled runs.
MaxFaults == 1

\* ------------------------------------------------------------------------
\* Optional values
\* ------------------------------------------------------------------------
None == <<>>
Some(x) == <<x>>
IsNone(o) == Len(o) = 0
IsSome(o) == Len(o) = 1
The(o) == o[1]

\* ------------------------------------------------------------------------
\* Addresses
\* ------------------------------------------------------------------------

\* main.py:100 and main.py:165-167: the default probe owner and the payer of
\* the simulated transferFrom (0xb634...2B3b).
DefaultOwner == 1001
\* main.py:70: the spender the allowance finder probes with (0x7C8E...aB82).
Spender == 1002
\* main.py:168-170: the recipient (and msg.sender) of the simulated
\* transferFrom (0xc1e3...9191).
Recipient == 1003
\* token_storage.py:53: the native-coin pseudo address (0xEeee...EEeE).
NativeCoin == 1999
SKIPS == {NativeCoin}

\* The tokens of the token list and the holders of the holder list.
TokenA == 2001
TokenB == 2002
TokenC == 2003
Tokens == {TokenA, TokenB, TokenC}
HolderA == 1101
HolderB == 1102

\* Contracts behind a token: the contract its first-level accessor returns
\* and the contract that one's second-level accessor returns.
ImplOf(t) == t + 100
StoreOf(t) == t + 200

EvmLangs == {"solidity", "vyper", "unknown"}

\* ------------------------------------------------------------------------
\* Primitives: ABI encoding and keccak
\* ------------------------------------------------------------------------

\* eth_abi encode(["uint"], [n]): the 32-byte big-endian word of n.
EncodeUint(n) == <<n>>
\* eth_abi encode(["address"], [a]): 12 zero bytes and the 20 address bytes,
\* the word whose value is the address.
EncodeAddress(a) == <<a>>
\* Bytes concatenation of two words.
Concat(x, y) == <<x, y>>
\* Web3.keccak of a 64-byte preimage.
Keccak(preimage) == <<preimage[1], preimage[2]>>

\* TokenStorageBase._mapping_key (token_storage.py:170-179).  A compiler that
\* is neither Solidity nor Vyper falls off the end: Python returns None.
mapping_key(slot, account, compiler) ==
    IF compiler = "solidity"
    THEN Some(Keccak(Concat(EncodeAddress(account), slot)))
    ELSE IF compiler = "vyper"
    THEN Some(Keccak(Concat(slot, EncodeAddress(account))))
    ELSE None

\* storage_key with the operands of the two conventions exchanged.
storage_key_swapped(slot, account, compiler) ==
    IF compiler = "solidity"
    THEN Some(Keccak(Concat(slot, EncodeAddress(account))))
    ELSE IF compiler = "vyper"
    THEN Some(Keccak(Concat(EncodeAddress(account), slot)))
    ELSE None

\* StorageOverrides.storage_key (storage_overrides.py:98-107).
storage_key(slot, account, compiler) ==
    IF compiler = "solidity"
    THEN Some(Keccak(Concat(EncodeAddress(account), slot)))
    ELSE IF compiler = "vyper"
    THEN Some(Keccak(Concat(slot, EncodeAddress(account))))
    ELSE None

\* ------------------------------------------------------------------------
\* Compiler sniffing
\* ------------------------------------------------------------------------
Max(a, b) == IF a > b THEN a ELSE b
Min(a, b) == IF a < b THEN a ELSE b

\* Python's b[i:j] on a bytes object (negative indices count from the end,
\* out-of-range indices are clamped, never an error).
PySlice(b, i, j) ==
    LET n == Len(b)
        lo == IF i < 0 THEN Max(n + i, 0) ELSE Min(i, n)
        hi == IF j < 0 THEN Max(n + j, 0) ELSE Min(j, n)
    IN IF hi <= lo THEN <<>> ELSE SubSeq(b, lo + 1, hi)

\* bytes.startswith
StartsWith(b, p) == Len(b) >= Len(p) /\ SubSeq(b, 1, Len(p)) = p

\* token_storage.py:45-50, in the dictionary's order.
PREFIXES ==
    << [prefix |-> <<96, 4, 54, 16, 21>>,   lang |-> "vyper"],
       [prefix |-> <<52, 21, 97, 0, 10>>,   lang |-> "vyper"],
       [prefix |-> <<96, 96, 96, 64, 82>>,  lang |-> "solidity"],
       [prefix |-> <<96, 128, 96, 64, 82>>, lang |-> "solidity"] >>

\* The for loop of token_storage.py:128-130 from PREFIXES[k] on.
RECURSIVE PrefixScan(_, _)
PrefixScan(bytecode, k) ==
    IF k > Len(PREFIXES) THEN "unknown"
    ELSE IF StartsWith(bytecode, PREFIXES[k].prefix) THEN PREFIXES[k].lang
    ELSE PrefixScan(bytecode, k + 1)

\* token_storage.py:123-132: the markers and prefixes of _detect_compiler,
\* applied to bytecode that is not None.
Sniff(bytecode) ==
    IF PySlice(bytecode, 0 - 53, 0 - 51) = <<162, 100>> THEN "solidity"
    ELSE IF PySlice(bytecode, 0 - 13, 0 - 11) = <<161, 101>> THEN "vyper"
    ELSE PrefixScan(bytecode, 1)

\* ------------------------------------------------------------------------
\* The forked chain
\* ------------------------------------------------------------------------
Zeros(n) == [i \in 1..n |-> 0]

\* Deployed bytecode, by the name a contract behaviour gives it.
CodeOf(name) ==
    CASE name = "sol_prefix" -> <<96, 128, 96, 64, 82>> \o Zeros(60)
      [] name = "sol_meta"   -> <<96, 128, 96, 64, 82>> \o Zeros(20)
                                   \o <<162, 100>> \o Zeros(51)
      [] name = "vy_meta"    -> Zeros(30) \o <<161, 101>> \o Zeros(11)
      [] name = "vy_prefix"  -> <<52, 21, 97, 0, 10>> \o Zeros(40)
      [] name = "short"      -> <<54, 61, 61, 55>>
      [] OTHER               -> <<54, 61>> \o Zeros(60)

\* What a computed (not storage backed) balanceOf returns.
ComputedBalance == 7

\* The behaviours a token contract of the fork may have:
\*   code      its bytecode
\*   conv      the convention its compiler keys mappings with
\*   acc       the first-level accessor it answers ("none": no accessor)
\*   acc2      whether the contract behind acc answers the second-level one
\*   level     where the mappings live: 0 the token, 1 ImplOf, 2 StoreOf
\*   bslot     base slot of the balance mapping (MAX_SLOT: beyond the search)
\*   aslot     base slot of the allowance mapping
\*   bview     balanceOf: "raw" stored value, "scaled" twice the stored value,
\*             "computed" a value no mapping holds, "faulty" a CallError
\*   principal whether principalBalanceOf exists (and returns the raw value)
\*   missing   how a call of a function the contract lacks fails
\*   aview     allowance: "raw" or "scaled"
\*   twin      whether the token is a second proxy in front of the contracts
\*             behind TokenA
\*   split     whether the allowances live in a contract of their own, the
\*             one the accessor `allowances` returns
Vanilla ==
    [code |-> "sol_prefix", conv |-> "solidity", acc |-> "none", acc2 |-> FALSE,
     level |-> 0, bslot |-> 0, aslot |-> 1, bview |-> "raw",
     principal |-> FALSE, missing |-> "CallError", aview |-> "raw",
     twin |-> FALSE, split |-> FALSE]

Kinds ==
    { Vanilla,
      [Vanilla EXCEPT !.code = "vy_meta", !.conv = "vyper", !.missing = "Exception",
                      !.bslot = MAX_SLOT - 1, !.aslot = 0],
      [Vanilla EXCEPT !.code = "short", !.acc = "balances", !.level = 1,
                      !.split = TRUE],
      [Vanilla EXCEPT !.acc = "erc20Impl", !.acc2 = TRUE, !.level = 2,
                      !.conv = "vyper", !.code = "vy_prefix"],
      [Vanilla EXCEPT !.code = "sol_meta", !.bview = "scaled", !.aview = "scaled"],
      [Vanilla EXCEPT !.code = "other", !.bslot = MAX_SLOT, !.acc = "target",
                      !.acc2 = TRUE],
      [Vanilla EXCEPT !.bview = "computed", !.principal = TRUE, !.bslot = 1,
                      !.aslot = MAX_SLOT],
      [Vanilla EXCEPT !.bview = "faulty"] }

Owners == {DefaultOwner, HolderA, HolderB}

\* The storage slot the EVM gives mapping[key] of a mapping at base slot
\* `base`: Solidity hashes key then slot, Vyper slot then key.
ChainMapSlot(conv, base, key) ==
    IF conv = "solidity" THEN Keccak(Concat(EncodeAddress(key), base))
    ELSE Keccak(Concat(base, EncodeAddress(key)))

\* The contracts behind token t: its own, or TokenA's for a second proxy.
ImplBehind(k, t) == IF k.twin THEN ImplOf(TokenA) ELSE ImplOf(t)
StoreBehind(k, t) == IF k.twin THEN StoreOf(TokenA) ELSE StoreOf(t)

HolderContract(k, t) ==
    IF k.level = 0 THEN t
    ELSE IF k.level = 1 THEN ImplBehind(k, t) ELSE StoreBehind(k, t)

\* The contract that holds the allowances of token t.
AllowanceHolder(k, t) ==
    IF k.split THEN StoreBehind(k, t) ELSE HolderContract(k, t)

\* Where balances[owner] and allowances[owner][spender] of token t live.
BalLoc(k, t, owner) ==
    <<HolderContract(k, t), ChainMapSlot(k.conv, EncodeUint(k.bslot), owner)>>
AllowLoc(k, t, owner, spender) ==
    <<AllowanceHolder(k, t),
      ChainMapSlot(k.conv, ChainMapSlot(k.conv, EncodeUint(k.aslot), owner), spender)>>

\* The storage locations some view function reads; the model keeps the
\* fork's storage at these locations only (no call observes any other).
LocsOf(k, t) ==
    {BalLoc(k, t, o) : o \in Owners}
        \cup {AllowLoc(k, t, o, s) : o \in Owners, s \in {Spender, Recipient}}

Ok(v) == [ok |-> TRUE, v |-> v, err |-> "none"]
Err(e) == [ok |-> FALSE, v |-> 0, err |-> e]

Read(st, loc) == IF loc \in DOMAIN st THEN st[loc] ELSE 0
\* evm_setAccountStorageAt on a location.
Write(st, loc, v) ==
    IF loc \in DOMAIN st THEN [st EXCEPT ![loc] = v] ELSE st

\* eth_call of token t's view function `fn` for `owner` on storage st.
BalanceView(k, t, fn, owner, st) ==
    IF fn = "balanceOf"
    THEN CASE k.bview = "raw"      -> Ok(Read(st, BalLoc(k, t, owner)))
           [] k.bview = "scaled"   -> Ok(2 * Read(st, BalLoc(k, t, owner)))
           [] k.bview = "computed" -> Ok(ComputedBalance)
           [] OTHER                -> Err("CallError")
    ELSE IF k.principal THEN Ok(Read(st, BalLoc(k, t, owner)))
    ELSE Err(k.missing)

AllowanceView(k, t, owner, spender, st) ==
    IF k.aview = "raw" THEN Ok(Read(st, AllowLoc(k, t, owner, spender)))
    ELSE Ok(2 * Read(st, AllowLoc(k, t, owner, spender)))

\* A zero-argument accessor `name` called on `contract` (the token t or the
\* contract behind it): the address it returns, None when the call fails.
AccessorCall(k, t, contract, name) ==
    IF contract = t /\ k.acc # "none" /\ name = k.acc THEN Some(ImplBehind(k, t))
    ELSE IF contract = t /\ k.acc = "balances" /\ name = "allowances"
    THEN Some(AllowanceHolder(k, t))
    ELSE IF contract = ImplBehind(k, t) /\ k.acc2
            /\ (  (k.acc = "target" /\ name = "tokenState")
               \/ (k.acc = "erc20Impl" /\ name = "erc20Store"))
    THEN Some(StoreBehind(k, t))
    ELSE None

\* A fault of the node during one finder call: the at-th probe of the call
\* has its storage write rejected ("reject"), its first view call fail with a
\* simulator CallError ("callerror"), or with a transport error or timeout
\* ("timeout").
NoFault == [kind |-> "none", at |-> 0]
Faults ==
    {NoFault} \cup [kind : {"reject", "callerror", "timeout"}, at : 1..MaxFaultAt]

\* ------------------------------------------------------------------------
\* The archive records
\* ------------------------------------------------------------------------

\* A token record: `contract` says whether the record holds the web3 contract
\* handle; balance and allowance are None while the key is absent and
\* otherwise hold [target, slot], each optional; compiler is "absent" or a
\* language; symbol says whether the symbol is set; complex is "absent",
\* "true" or "false".
NewRecord ==
    [contract |-> TRUE, balance |-> None, allowance |-> None,
     compiler |-> "absent", symbol |-> FALSE, complex |-> "absent"]

Unresolved == [target |-> None, slot |-> None]
SlotOf(rec, var) == IF IsNone(rec[var]) THEN None ELSE The(rec[var]).slot
TargetOf(rec, var) == IF IsNone(rec[var]) THEN None ELSE The(rec[var]).target
Resolved(rec, var) == IsSome(SlotOf(rec, var))

\* ------------------------------------------------------------------------
\* The slot finder (token_storage.py)
\* ------------------------------------------------------------------------

\* token_storage.py:213 and :339: the probe adds 1000 * 10**18.
ProbeAmount == 1000

\* A finder object `self` is [var, token, owner, spender, k, search_range,
\* fault]: k is the chain's behaviour of the token and fault the node fault of
\* this call.  A context `ctx` is [st, n, log]: the fork's storage, the number
\* of probes issued by the call so far and the probes themselves.

FaultAt(self, n, kinds) == self.fault.at = n /\ self.fault.kind \in kinds

FaultErr(kind) ==
    IF kind = "callerror" THEN Err("CallError") ELSE Err("Exception")

ProbeEntry(self, addr, slot, compiler, fn, key, wrote, res, starting, probing, updated) ==
    [owner |-> self.owner, spender |-> self.spender,
     target |-> addr, slot |-> slot, compiler |-> compiler, fn |-> fn,
     key |-> key, wrote |-> wrote, res |-> res,
     starting |-> starting, probing |-> probing, updated |-> updated]

\* The outcome of one probe from what it read and wrote: the exception that
\* leaves _check or the value of `check`.
Outcome(starting, key, rejected, updated, matched) ==
    IF ~starting.ok THEN starting.err
    ELSE IF IsNone(key) THEN "Exception"
    ELSE IF rejected THEN "Rejected"
    ELSE IF ~updated.ok THEN updated.err
    ELSE IF matched THEN "match" ELSE "nomatch"

\* The comparison of BalanceStorage._check (token_storage.py:233).
BalanceMatch(starting, probing, updated) == updated > starting

\* The allowance comparison written as the balance one.
AllowanceMatch_greater(starting, probing, updated) == updated > starting

\* The comparison of AllowanceStorage._check (token_storage.py:364).
AllowanceMatch(starting, probing, updated) == probing = updated

\* The last steps of a probe (token_storage.py:232-240 and :361-372): the
\* view is read again (`updated`) and compared; the probe joins the log.
check_compare(self, storage_address, slot, compiler, function_name, ctx, starting, key, wrote, st1, updated, matched) ==
    [res |-> Outcome(starting, key, ~wrote /\ starting.ok /\ IsSome(key),
                     updated, matched),
     ctx |-> [st |-> st1, n |-> ctx.n + 1,
              log |-> Append(ctx.log,
                  ProbeEntry(self, storage_address, slot, compiler, function_name,
                             key, wrote,
                             Outcome(starting, key,
                                     ~wrote /\ starting.ok /\ IsSome(key),
                                     updated, matched),
                             starting.v, starting.v + ProbeAmount, updated.v))]]

\* The first read of a probe, `starting`: the node's fault or the view.
first_read(self, ctx, view) ==
    IF FaultAt(self, ctx.n + 1, {"callerror", "timeout"})
    THEN FaultErr(self.fault.kind) ELSE view

\* Whether the probe writes: the first read and the key are there and the
\* node does not reject the write (token_storage.py:221-231 and :350-360).
Writes(self, ctx, starting, key) ==
    starting.ok /\ IsSome(key) /\ ~FaultAt(self, ctx.n + 1, {"reject"})

\* The storage after the probe's write of `probing` (if it writes).
AfterWrite(self, storage_address, ctx, starting, key) ==
    IF Writes(self, ctx, starting, key)
    THEN Write(ctx.st, <<storage_address, The(key)>>, starting.v + ProbeAmount)
    ELSE ctx.st

\* BalanceStorage._check (token_storage.py:208-240), from the second read on.
Balance_reread(self, storage_address, slot, compiler, function_name, ctx, starting, key, st1, updated) ==
    check_compare(self, storage_address, slot, compiler, function_name, ctx,
                  starting, key, Writes(self, ctx, starting, key), st1, updated,
                  BalanceMatch(starting.v, starting.v + ProbeAmount, updated.v))

Balance_write(self, storage_address, slot, compiler, function_name, ctx, starting, key, st1) ==
    Balance_reread(self, storage_address, slot, compiler, function_name, ctx,
                   starting, key, st1,
                   BalanceView(self.k, self.token, function_name, self.owner, st1))

\* BalanceStorage._check (token_storage.py:208-240).
Balance_check(self, storage_address, slot, compiler, function_name, ctx, starting, key) ==
    Balance_write(self, storage_address, slot, compiler, function_name, ctx,
                  starting, key,
                  AfterWrite(self, storage_address, ctx, starting, key))

\* AllowanceStorage._check (token_storage.py:332-372), from the second read.
Allowance_reread(self, storage_address, slot, compiler, function_name, ctx, starting, key, st1, updated) ==
    check_compare(self, storage_address, slot, compiler, function_name, ctx,
                  starting, key, Writes(self, ctx, starting, key), st1, updated,
                  AllowanceMatch(starting.v, starting.v + ProbeAmount, updated.v))

Allowance_write(self, storage_address, slot, compiler, function_name, ctx, starting, key, st1) ==
    Allowance_reread(self, storage_address, slot, compiler, function_name, ctx,
                     starting, key, st1,
                     AllowanceView(self.k, self.token, self.owner, self.spender, st1))

\* token_storage.py:343-348: the key of the inner mapping.
inner_key(outer, spender, compiler) ==
    IF IsNone(outer) THEN None ELSE mapping_key(The(outer), spender, compiler)

\* AllowanceStorage._check (token_storage.py:332-372).
Allowance_check(self, storage_address, slot, compiler, function_name, ctx, starting, key) ==
    Allowance_write(self, storage_address, slot, compiler, function_name, ctx,
                    starting, key,
                    AfterWrite(self, storage_address, ctx, starting, key))

\* The _check of the finder's class, entered with its first read and its key.
check(self, storage_address, slot, compiler, function_name, ctx) ==
    IF self.var = "balance"
    THEN Balance_check(self, storage_address, slot, compiler, function_name, ctx,
             first_read(self, ctx,
                 BalanceView(self.k, self.token, function_name, self.owner, ctx.st)),
             mapping_key(EncodeUint(slot), self.owner, compiler))
    ELSE Allowance_check(self, storage_address, slot, compiler, function_name, ctx,
             first_read(self, ctx,
                 AllowanceView(self.k, self.token, self.owner, self.spender, ctx.st)),
             inner_key(mapping_key(EncodeUint(slot), self.owner, compiler),
                       self.spender, compiler))

\* What the try statement of _find does with a probe's outcome
\* (token_storage.py:140-153): "return" the slot, "break" out of the loop,
\* "continue" with the next slot, or "raise".  The handler of ValueError
\* subscripts error.args[0]["name"]: the ValueError _check raises for a
\* rejected write carries a string, so the subscript raises TypeError inside
\* the handler and no other except clause of the statement catches it.  A
\* ValueError of another name leaves the handler and the loop goes on.
Handle(res) ==
    CASE res = "match"     -> "return"
      [] res = "CallError" -> "break"
      [] res = "Rejected"  -> "raise"
      [] OTHER             -> "continue"

\* TokenStorageBase._find (token_storage.py:138-153) from search_range[i] on;
\* find_step is the loop's body after the probe r of search_range[i].
RECURSIVE find_loop(_, _, _, _, _, _)
find_step(self, storage_address, compiler, function_name, i, r, h) ==
    CASE h = "return" -> [slot |-> Some(self.search_range[i]), raised |-> FALSE,
                          ctx |-> r.ctx]
      [] h = "break"  -> [slot |-> None, raised |-> FALSE, ctx |-> r.ctx]
      [] h = "raise"  -> [slot |-> None, raised |-> TRUE, ctx |-> r.ctx]
      [] OTHER        -> find_loop(self, storage_address, compiler,
                                   function_name, i + 1, r.ctx)

find_probe(self, storage_address, compiler, function_name, i, r) ==
    find_step(self, storage_address, compiler, function_name, i, r, Handle(r.res))

find_loop(self, storage_address, compiler, function_name, i, ctx) ==
    IF i > Len(self.search_range)
    THEN [slot |-> None, raised |-> FALSE, ctx |-> ctx]
    ELSE find_probe(self, storage_address, compiler, function_name, i,
                    check(self, storage_address, self.search_range[i], compiler,
                          function_name, ctx))

\* TokenStorageBase._find_iterate (token_storage.py:155-168); a is the result
\* of the first _find, under `first`: Solidity when the compiler is Unknown.
find_iterate_second(self, storage_address, function_name, b) ==
    [slot |-> b.slot, compiler |-> "vyper", raised |-> b.raised, ctx |-> b.ctx]

\* find_iterate_first returning the compiler it was called with.
find_iterate_first_kept(self, storage_address, compiler, function_name, first, a) ==
    IF compiler = "unknown" /\ ~a.raised /\ IsNone(a.slot)
    THEN find_iterate_second(self, storage_address, function_name,
             find_loop(self, storage_address, "vyper", function_name, 1, a.ctx))
    ELSE [slot |-> a.slot, compiler |-> compiler, raised |-> a.raised,
          ctx |-> a.ctx]

\* Lines 156-168 after the first _find returned a.
find_iterate_first(self, storage_address, compiler, function_name, first, a) ==
    IF compiler = "unknown" /\ ~a.raised /\ IsNone(a.slot)
    THEN find_iterate_second(self, storage_address, function_name,
             find_loop(self, storage_address, "vyper", function_name, 1, a.ctx))
    ELSE [slot |-> a.slot, compiler |-> first, raised |-> a.raised, ctx |-> a.ctx]

find_iterate_from(self, storage_address, compiler, function_name, ctx, first) ==
    find_iterate_first(self, storage_address, compiler, function_name, first,
        find_loop(self, storage_address, first, function_name, 1, ctx))

find_iterate(self, storage_address, compiler, function_name, ctx) ==
    find_iterate_from(self, storage_address, compiler, function_name, ctx,
                      IF compiler = "unknown" THEN "solidity" ELSE compiler)

\* TokenStorageBase._bytecode (token_storage.py:107-112): the code is fetched
\* and kept on the contract object; the function has no return statement, so
\* its caller receives None.
bytecode(k) == None

\* TokenStorageBase._detect_compiler (token_storage.py:114-132).
detect_compiler(rec, k) ==
    IF rec.compiler # "absent" THEN rec.compiler
    ELSE LET b == bytecode(k)
         IN IF IsNone(b) THEN "unknown" ELSE Sniff(The(b))

\* The view methods a finder tries on the token itself
\* (token_storage.py:258 and :393).
Methods(var) ==
    IF var = "balance" THEN <<"balanceOf", "principalBalanceOf">>
    ELSE <<"allowance">>

\* The keys of non_standard_implementations, in order, and the second-level
\* accessors of each (token_storage.py:269-273 and :404-408).
FirstLevel(var) ==
    IF var = "balance" THEN <<"target", "balances", "erc20Impl">>
    ELSE <<"target", "allowances", "erc20Impl">>

SecondLevel(name) ==
    CASE name = "target"    -> <<"tokenState">>
      [] name = "erc20Impl" -> <<"erc20Store">>
      [] OTHER              -> <<>>

\* The for loop over the view methods (token_storage.py:259-264) from
\* methods[i] on; methods_step is its body after _find_iterate returned r.
RECURSIVE methods_loop(_, _, _, _)
methods_step(self, original_compiler, i, r) ==
    IF r.raised \/ IsSome(r.slot) \/ i = Len(Methods(self.var)) THEN r
    ELSE methods_loop(self, original_compiler, i + 1, r.ctx)

methods_loop(self, original_compiler, i, ctx) ==
    methods_step(self, original_compiler, i,
        find_iterate(self, self.token, original_compiler,
                     Methods(self.var)[i], ctx))

\* The try/except loop over accessors `names` called on `contract`
\* (token_storage.py:274-281 and :292-301) from names[i] on: the address of
\* the first call that succeeds and the loop variable `target`; when no call
\* succeeds storage_address keeps `current`.
RECURSIVE accessor_loop(_, _, _, _, _)
accessor_step(self, contract, names, current, i, a) ==
    IF IsSome(a) THEN [storage_address |-> The(a), target |-> names[i]]
    ELSE accessor_loop(self, contract, names, current, i + 1)

accessor_loop(self, contract, names, current, i) ==
    IF i > Len(names)
    THEN [storage_address |-> current,
          target |-> IF Len(names) = 0 THEN "" ELSE names[Len(names)]]
    ELSE accessor_step(self, contract, names, current, i,
                       AccessorCall(self.k, self.token, contract, names[i]))

\* A finder call's result: what find returned ("True", "False", or "raised"
\* when an exception left it), the token's record and the fork's storage
\* after it, the compiler _detect_compiler returned, and the probes issued.
FindResult(ret, rec, original_compiler, ctx) ==
    [ret |-> ret, rec |-> rec, original_compiler |-> original_compiler,
     st |-> ctx.st, log |-> ctx.log]

\* find_finish without the assignment of the target (line 310).
find_finish_notarget(self, rec, original_compiler, r, storage_address) ==
    FindResult(
        IF r.raised THEN "raised" ELSE IF IsSome(r.slot) THEN "True" ELSE "False",
        IF ~r.raised /\ IsSome(r.slot)
        THEN [rec EXCEPT ![self.var] = Some([target |-> None, slot |-> r.slot]),
                         !.compiler = r.compiler]
        ELSE rec,
        original_compiler, r.ctx)

\* Lines 308-318 (and 443-455): record the slot and return.
find_finish(self, rec, original_compiler, r, storage_address) ==
    FindResult(
        IF r.raised THEN "raised" ELSE IF IsSome(r.slot) THEN "True" ELSE "False",
        IF ~r.raised /\ IsSome(r.slot)
        THEN [rec EXCEPT ![self.var] = Some([target |-> Some(storage_address),
                                             slot |-> r.slot]),
                         !.compiler = r.compiler]
        ELSE rec,
        original_compiler, r.ctx)

\* find_second_search recording the first-level contract as the target.
find_second_search_first(self, rec, original_compiler, r1, first, second) ==
    find_finish(self, rec, original_compiler,
        IF second.storage_address # first.storage_address
        THEN find_iterate(self, second.storage_address, original_compiler,
                          Methods(self.var)[1], r1.ctx)
        ELSE r1,
        first.storage_address)

\* Lines 303-306 (and 438-441): the search on the second-level contract.
find_second_search(self, rec, original_compiler, r1, first, second) ==
    find_finish(self, rec, original_compiler,
        IF second.storage_address # first.storage_address
        THEN find_iterate(self, second.storage_address, original_compiler,
                          Methods(self.var)[1], r1.ctx)
        ELSE r1,
        second.storage_address)

\* Lines 288-306 (and 423-441): the second-level fallback, entered with the
\* result r1 so far and the first-level loop's outcome `first`.
find_second(self, rec, original_compiler, r1, first) ==
    find_second_search(self, rec, original_compiler, r1, first,
        IF r1.raised \/ IsSome(r1.slot) \/ first.storage_address = self.token
        THEN first
        ELSE accessor_loop(self, first.storage_address, SecondLevel(first.target),
                           first.storage_address, 1))

\* Lines 283-286 (and 418-421): the search on the first-level contract.
find_first_search(self, rec, original_compiler, r0, first) ==
    find_second(self, rec, original_compiler,
        IF first.storage_address # self.token
        THEN find_iterate(self, first.storage_address, original_compiler,
                          Methods(self.var)[1], r0.ctx)
        ELSE r0,
        first)

\* Lines 266-286 (and 401-421): the first-level fallback, entered with the
\* result r0 of the direct search.
find_first(self, rec, original_compiler, r0) ==
    find_first_search(self, rec, original_compiler, r0,
        IF r0.raised \/ IsSome(r0.slot)
        THEN [storage_address |-> self.token, target |-> ""]
        ELSE accessor_loop(self, self.token, FirstLevel(self.var), self.token, 1))

\* Lines 251-264 (and 383-399): the record is reset and the token searched.
find_direct(self, rec1, st, original_compiler) ==
    find_first(self, rec1, original_compiler,
        methods_loop(self, original_compiler, 1, [st |-> st, n |-> 0, log |-> <<>>]))

\* find searching again a variable whose slot is recorded.
find_again(self, rec, st) ==
    IF self.token \in SKIPS
    THEN FindResult("False", rec, "skipped", [st |-> st, n |-> 0, log |-> <<>>])
    ELSE find_direct(self, [rec EXCEPT ![self.var] = Some(Unresolved)], st,
             detect_compiler([rec EXCEPT ![self.var] = Some(Unresolved)], self.k))

\* BalanceStorage.find (token_storage.py:242-318) and AllowanceStorage.find
\* (token_storage.py:374-455) on the token's record `rec` and storage `st`.
find(self, rec, st) ==
    IF self.token \in SKIPS \/ Resolved(rec, self.var)
    THEN FindResult("False", rec, "skipped", [st |-> st, n |-> 0, log |-> <<>>])
    ELSE find_direct(self, [rec EXCEPT ![self.var] = Some(Unresolved)], st,
             detect_compiler([rec EXCEPT ![self.var] = Some(Unresolved)], self.k))

\* ------------------------------------------------------------------------
\* The archive (TokenStorageBase.db, StorageOverrides.db, the JSON file)
\* ------------------------------------------------------------------------

\* A Python dict of token records: its keys in insertion order and the
\* record of each key.
EmptyDb == [keys |-> <<>>, recs |-> <<>>]
Has(d, t) == t \in DOMAIN d.recs
Put(d, t, rec) ==
    IF Has(d, t) THEN [d EXCEPT !.recs[t] = rec]
    ELSE [keys |-> Append(d.keys, t), recs |-> d.recs @@ (t :> rec)]

\* TokenStorageBase.__init__ (token_storage.py:65-69).
construct(d, t) == IF Has(d, t) THEN d ELSE Put(d, t, NewRecord)

\* The slots recorded for `var`, in the dict's order (token_storage.py:76-80).
RECURSIVE common_slots(_, _, _)
common_slots(d, var, i) ==
    IF i > Len(d.keys) THEN <<>>
    ELSE LET s == SlotOf(d.recs[d.keys[i]], var)
         IN (IF IsSome(s) THEN <<The(s)>> ELSE <<>>) \o common_slots(d, var, i + 1)

Count(seq, v) == Cardinality({i \in 1..Len(seq) : seq[i] = v})
FirstIndex(seq, v) == CHOOSE i \in 1..Len(seq) :
                          seq[i] = v /\ \A j \in 1..(i - 1) : seq[j] # v

\* The distinct slots in the order they were first seen, whatever their count.
RECURSIVE most_common_seen(_, _)
most_common_seen(seq, left) ==
    IF left = {} THEN <<>>
    ELSE LET best == CHOOSE v \in left : \A w \in left :
                         FirstIndex(seq, v) <= FirstIndex(seq, w)
         IN <<best>> \o most_common_seen(seq, left \ {best})

\* Counter(common_slots).most_common() followed by the removal of duplicates
\* (token_storage.py:81-89): the distinct slots by descending count, equal
\* counts in the order they were first seen.
RECURSIVE most_common(_, _)
most_common(seq, left) ==
    IF left = {} THEN <<>>
    ELSE LET best == CHOOSE v \in left : \A w \in left :
                         \/ Count(seq, v) > Count(seq, w)
                         \/ (Count(seq, v) = Count(seq, w)
                             /\ FirstIndex(seq, v) <= FirstIndex(seq, w))
         IN <<best>> \o most_common(seq, left \ {best})

\* list(set) of small integers: ascending.
RECURSIVE Ascending(_)
Ascending(set) ==
    IF set = {} THEN <<>>
    ELSE LET m == CHOOSE v \in set : \A w \in set : v <= w
         IN <<m>> \o Ascending(set \ {m})

Range(seq) == {seq[i] : i \in 1..Len(seq)}

\* TokenStorageBase._get_search_range (token_storage.py:71-93).
get_search_range(d, var) ==
    LET seen == common_slots(d, var, 1)
        unique_slots == most_common(seen, Range(seen))
    IN unique_slots \o Ascending((0..(MAX_SLOT - 1)) \ Range(unique_slots))

\* TokenStorageBase.archive (token_storage.py:95-105): the copy is shallow, so
\* the contract handle is deleted from the shared records; the result is both
\* the dict in memory and the content of the file.
archive(d) ==
    [keys |-> d.keys,
     recs |-> [t \in DOMAIN d.recs |-> [d.recs[t] EXCEPT !.contract = FALSE]]]

\* ------------------------------------------------------------------------
\* The override synthesizer (storage_overrides.py) and the prober
\* (transfer_from_sim.py)
\* ------------------------------------------------------------------------

\* storage_overrides.py:10-13: 2^95 - 1 as a 32-byte hex word.
BALANCE_OVERRIDE ==
    "0x00000000000000000000000000000000000000007fffffffffffffffffffffff"

\* transfer_from_sim.py:23-29: tokens whose transferFrom returns nothing and
\* is known to succeed.
forced_simple_complexity == {TokenB}

\* A JSON record {}.
EmptyRecord(rec) ==
    /\ ~rec.contract /\ IsNone(rec.balance) /\ IsNone(rec.allowance)
    /\ rec.compiler = "absent" /\ ~rec.symbol /\ rec.complex = "absent"

NoOverride == [raised |-> FALSE, target |-> None, diff |-> {}]

\* storage_overrides.py:77-96: the key of the override and the pair returned;
\* a compiler that is neither Solidity nor Vyper leaves storage_key None and
\* its .hex() raises.
override_of(token_data, type, key) ==
    IF IsNone(key) THEN [raised |-> TRUE, target |-> None, diff |-> {}]
    ELSE [raised |-> FALSE, target |-> TargetOf(token_data, type),
          diff |-> {[key |-> The(key), value |-> BALANCE_OVERRIDE]}]

override_key(token_data, type, spender_address, first) ==
    IF type = "balance" \/ IsNone(first) THEN first
    ELSE storage_key(The(first), The(spender_address), token_data.compiler)

\* StorageOverrides.get_storage_overrides (storage_overrides.py:44-96) on the
\* class's dict d: the target and the override, or the KeyError of line 68.
get_storage_overrides(d, token_address, type, owner_address, spender_address) ==
    IF ~Has(d, token_address) THEN NoOverride
    ELSE IF EmptyRecord(d.recs[token_address]) THEN NoOverride
    ELSE IF d.recs[token_address].compiler = "absent" THEN NoOverride
    ELSE IF IsNone(d.recs[token_address][type])
    THEN [raised |-> TRUE, target |-> None, diff |-> {}]
    ELSE IF IsNone(SlotOf(d.recs[token_address], type)) THEN NoOverride
    ELSE IF type = "allowance" /\ IsNone(spender_address) THEN NoOverride
    ELSE override_of(d.recs[token_address], type,
             override_key(d.recs[token_address], type, spender_address,
                 storage_key(EncodeUint(The(SlotOf(d.recs[token_address], type))),
                             owner_address, d.recs[token_address].compiler)))

\* The document built without the merge: with one holder for both, the
\* allowance entry replaces the balance entry.
overrides_doc_replaced(b, a) ==
    IF b.raised \/ a.raised THEN [raised |-> TRUE, doc |-> {}]
    ELSE IF IsNone(a.target) \/ IsNone(b.target)
    THEN [raised |-> FALSE, doc |-> {}]
    ELSE [raised |-> FALSE,
          doc |-> {[holder |-> The(b.target), key |-> e.key, value |-> e.value]
                       : e \in (IF a.target = b.target THEN {} ELSE b.diff)}
                  \cup
                  {[holder |-> The(a.target), key |-> e.key, value |-> e.value]
                       : e \in a.diff}]

\* transfer_from_sim.py:66-89: the document of the two overrides b and a.  The
\* document {holder: {"stateDiff": {key: value}}} is the set of its
\* [holder, key, value] entries.
overrides_doc(b, a) ==
    IF b.raised \/ a.raised THEN [raised |-> TRUE, doc |-> {}]
    ELSE IF IsNone(a.target) \/ IsNone(b.target)
    THEN [raised |-> FALSE, doc |-> {}]
    ELSE [raised |-> FALSE,
          doc |-> {[holder |-> The(b.target), key |-> e.key, value |-> e.value]
                       : e \in b.diff}
                  \cup
                  {[holder |-> The(a.target), key |-> e.key, value |-> e.value]
                       : e \in a.diff}]

\* TransferFromSim.get_overrides (transfer_from_sim.py:51-89).
get_overrides(d, token_address, from_address, to_address) ==
    overrides_doc(
        get_storage_overrides(d, token_address, "balance", from_address, None),
        get_storage_overrides(d, token_address, "allowance", from_address,
                              Some(to_address)))

\* What the eth_call of transferFrom under the overrides does: it returns
\* true or false, returns data that is no bool ("nodata"), or fails with an
\* exception whose first argument is a mapping with a "message"
\* ("error_dict") or is anything else, as the string of web3's
\* ContractLogicError or the empty argument list of a timeout ("error_other").
CallOutcomes == {"true", "false", "nodata", "error_dict", "error_other"}

\* The outcomes the transferFrom of each token may have on the fork.
OutcomesOf(t) ==
    IF t = TokenA THEN CallOutcomes
    ELSE IF t = TokenB THEN {"true", "nodata"}
    ELSE {"false"}

\* The except clauses of simulate (transfer_from_sim.py:105-121).
classify(token_address, outcome) ==
    CASE outcome = "true"   -> [raised |-> FALSE, complex |-> "false"]
      [] outcome = "false"  -> [raised |-> FALSE, complex |-> "true"]
      [] outcome = "nodata" ->
            [raised |-> FALSE,
             complex |-> IF token_address \in forced_simple_complexity
                         THEN "false" ELSE "true"]
      [] outcome = "error_dict"  -> [raised |-> FALSE, complex |-> "true"]
      [] OTHER -> [raised |-> TRUE, complex |-> "absent"]

\* simulate without the early return on an empty document (lines 94-99).
simulate_calling(token_address, outcome, o, c) ==
    IF o.raised
    THEN [raised |-> TRUE, complex |-> "absent", doc |-> {}, called |-> FALSE]
    ELSE [raised |-> c.raised, complex |-> c.complex, doc |-> o.doc,
          called |-> TRUE]

\* transfer_from_sim.py:94-123: simulate once the document o is built.
simulate_with(token_address, outcome, o, c) ==
    IF o.raised
    THEN [raised |-> TRUE, complex |-> "absent", doc |-> {}, called |-> FALSE]
    ELSE IF o.doc = {}
    THEN [raised |-> FALSE, complex |-> "true", doc |-> {}, called |-> FALSE]
    ELSE [raised |-> c.raised, complex |-> c.complex, doc |-> o.doc,
          called |-> TRUE]

\* TransferFromSim.simulate (transfer_from_sim.py:91-123): whether it raised,
\* the classification it returned, the document it built and whether it
\* issued the transferFrom call.
simulate(d, token_address, from_address, to_address, outcome) ==
    simulate_with(token_address, outcome,
                  get_overrides(d, token_address, from_address, to_address),
                  classify(token_address, outcome))

\* ------------------------------------------------------------------------
\* The driver (main.py) as a state machine
\* ------------------------------------------------------------------------
VARIABLES
    chain,      \* the behaviour of each token contract on the fork
    storage,    \* the fork's storage at the locations the views read
    tokens,     \* the token list (the keys of tokens_raw that start with 0x)
    holders,    \* token_holders: the holder list of each token that has one
    disk,       \* db/storage_finder_db.json: None while the file is absent
    db,         \* TokenStorageBase.db
    sodb,       \* StorageOverrides.db, loaded when the module is imported
    run,        \* the number of the driver process
    faults,     \* the number of node faults so far
    delta_only, \* main's parameter
    pc,         \* where main is
    chunk,      \* the number of the chunk being processed
    owner,      \* main's local `owner` of the search loop (None: unbound)
    bal,        \* main's local `bal` (None: unbound)
    tasks,      \* the finder objects of the chunk, in creation order
    done,       \* the tasks of the running wave that have returned
    updated,    \* whether a finder of the chunk returned True
    simdb,      \* main's local db, loaded from the file before the simulation
    results,    \* per simulated token of the run, what simulate did
    last,       \* the chunk's last finder call: object, record before, result
    matched,    \* per (token, variable), the probe that matched
    failure,    \* the statement whose exception ended the process, if any
    previous,   \* the archive file the run before left, if that run was
                \* started with delta_only and completed (None otherwise)
    wave        \* per finished task of the wave, the locations its call wrote

vars == <<chain, storage, tokens, holders, disk, db, sodb, run, faults,
          delta_only, pc, chunk, owner, bal, tasks, done, updated, simdb,
          results, last, matched, failure, previous, wave>>

\* The archive file of an earlier deployment whose finder searched more
\* slots: it holds TokenC, with its balances at slot MAX_SLOT.
FoundRecord(bslot, aslot, t, compiler) ==
    [contract |-> FALSE, compiler |-> compiler, symbol |-> TRUE, complex |-> "false",
     balance |-> Some([slot |-> Some(bslot), target |-> Some(t)]),
     allowance |-> Some([slot |-> Some(aslot), target |-> Some(t)])]
OlderArchive ==
    [keys |-> <<TokenC>>,
     recs |-> (TokenC :> FoundRecord(MAX_SLOT, 1, TokenC, "solidity"))]

\* The token list, the holder list and the archive file the runs are given.
FullList == <<TokenA, TokenB, TokenC>>
ShortList == <<TokenA, NativeCoin>>
TwinList == <<TokenA, TokenB>>
StaleList == <<TokenA, TokenB, NativeCoin>>
Inputs ==
    { [tokens |-> FullList, holders |-> (TokenA :> <<HolderA, HolderB>>),
       archive |-> None],
      [tokens |-> <<NativeCoin, TokenA>>, holders |-> <<>>, archive |-> None],
      [tokens |-> <<TokenB, TokenA>>,
       holders |-> (TokenA :> <<HolderA>>) @@ (TokenB :> <<>>), archive |-> None],
      [tokens |-> ShortList, holders |-> (TokenA :> <<HolderA>>),
       archive |-> Some(OlderArchive)],
      [tokens |-> TwinList, holders |-> <<>>, archive |-> None],
      [tokens |-> StaleList,
       holders |-> (TokenA :> <<HolderA>>) @@ (TokenB :> <<>>), archive |-> None] }

\* The behaviours the tokens are drawn from: TokenA has any of Kinds when the
\* list is the full one, and keeps its balances within, at or beyond
\* MAX_SLOT when the list is the short one; TokenA and TokenB of the twin
\* list are two proxies in front of one contract that holds the mappings.
KindsOf(t, list) ==
    IF list = TwinList /\ t \in {TokenA, TokenB}
    THEN {[Vanilla EXCEPT !.acc = "target", !.level = 1, !.twin = (t = TokenB)]}
    ELSE IF t = TokenA
    THEN (IF list = FullList THEN Kinds
          ELSE IF list = ShortList
          THEN {Vanilla, [Vanilla EXCEPT !.bslot = MAX_SLOT],
                [Vanilla EXCEPT !.bslot = MAX_SLOT + 1, !.aslot = MAX_SLOT + 1]}
          ELSE {Vanilla})
    ELSE IF t = TokenB
    THEN (IF list = FullList THEN {Vanilla}
          ELSE {[Vanilla EXCEPT !.bslot = MAX_SLOT, !.aslot = MAX_SLOT]})
    ELSE IF list = ShortList THEN {[Vanilla EXCEPT !.bslot = MAX_SLOT]}
    ELSE {[Vanilla EXCEPT !.conv = "vyper", !.bslot = 1, !.aslot = 1]}

\* What HolderB holds of every token at the start.
HolderBalance == 5

InitialStorage(ch) ==
    [loc \in UNION {LocsOf(ch[t], t) : t \in Tokens} |->
        IF \E t \in Tokens : loc = BalLoc(ch[t], t, HolderB)
        THEN HolderBalance ELSE 0]

NoCall == [self |-> <<>>, before |-> <<>>, res |-> <<>>]

\* The state of a driver process that has just imported its modules: both
\* classes load the archive file (token_storage.py:58-63 and
\* storage_overrides.py:38-42), an absent file gives the empty dict.
Load(file) == IF IsNone(file) THEN EmptyDb ELSE The(file)

Init ==
    /\ \E in \in Inputs :
          /\ tokens = in.tokens
          /\ holders = in.holders
          /\ \E ka \in KindsOf(TokenA, in.tokens), kb \in KindsOf(TokenB, in.tokens),
                kc \in KindsOf(TokenC, in.tokens) :
                chain = (TokenA :> ka) @@ (TokenB :> kb) @@ (TokenC :> kc)
          /\ disk = in.archive
    /\ storage = InitialStorage(chain)
    /\ run = 1
    /\ faults = 0
    /\ db = Load(disk)
    /\ sodb = Load(disk)
    /\ delta_only = TRUE
    /\ pc = "prepare"
    /\ chunk = 1
    /\ owner = None
    /\ bal = None
    /\ tasks = <<>>
    /\ done = {}
    /\ updated = FALSE
    /\ simdb = EmptyDb
    /\ results = <<>>
    /\ last = NoCall
    /\ matched = <<>>
    /\ failure = "none"
    /\ previous = None
    /\ wave = <<>>

\* chunks(ll, n) (main.py:28-30): the i-th chunk, and their number.
Chunk(ll, i) ==
    SubSeq(ll, (i - 1) * ChunkSize + 1, Min(i * ChunkSize, Len(ll)))
NChunks(ll) == (Len(ll) + ChunkSize - 1) \div ChunkSize

\* The for loop over a token's holders (main.py:85-94) from list[i] on, with
\* main's locals o (owner) and b (bal); holder_step is the body after the
\* balanceOf call returned r.
RECURSIVE holder_loop(_, _, _, _, _, _)
holder_step(k, t, list, i, o, b, r) ==
    IF ~r.ok THEN holder_loop(k, t, list, i + 1, Some(list[i]), b)
    ELSE IF r.v > 0 THEN [owner |-> Some(list[i]), bal |-> Some(r.v)]
    ELSE holder_loop(k, t, list, i + 1, Some(list[i]), Some(r.v))

holder_loop(k, t, list, i, o, b) ==
    IF i > Len(list) THEN [owner |-> o, bal |-> b]
    ELSE holder_step(k, t, list, i, o, b,
                     BalanceView(k, t, "balanceOf", list[i], storage))

\* main.py:96: `bal == 0` reads bal; an unbound local raises.
picked(h) ==
    [owner |-> h.owner, bal |-> h.bal, raised |-> IsNone(h.bal) \/ IsNone(h.owner)]

\* The choice of the probe owner (main.py:84-100): main's locals after it,
\* and whether reading an unbound local raised.
pick_owner(t, o, b) ==
    IF t \in DOMAIN holders
    THEN picked(holder_loop(chain[t], t, holders[t], 1, o, b))
    ELSE [owner |-> Some(DefaultOwner), bal |-> b, raised |-> FALSE]

\* main.py:102-105: the two finder objects of token t are constructed, each
\* with its search range, and their coroutines appended.
appended(acc, t, p, d) ==
    [db |-> d, owner |-> p.owner, bal |-> p.bal, raised |-> FALSE,
     tasks |-> Append(acc.tasks,
                  [token |-> t, owner |-> The(p.owner),
                   balance |-> get_search_range(d, "balance"),
                   allowance |-> get_search_range(d, "allowance")])]

\* The body of the loop over a chunk's tokens (main.py:77-105) from
\* list[j] on: acc is [db, owner, bal, tasks, raised].
RECURSIVE prepare_loop(_, _, _)
prepare_step(list, j, acc, p) ==
    IF p.raised
    THEN [acc EXCEPT !.owner = p.owner, !.bal = p.bal, !.raised = TRUE]
    ELSE prepare_loop(list, j + 1,
                      appended(acc, list[j], p, construct(acc.db, list[j])))

prepare_loop(list, j, acc) ==
    IF j > Len(list) \/ acc.raised THEN acc
    ELSE IF list[j] \in SKIPS \/ (delta_only /\ Has(acc.db, list[j]))
    THEN prepare_loop(list, j + 1, acc)
    ELSE prepare_step(list, j, acc, pick_owner(list[j], acc.owner, acc.bal))

\* The process ends with the exception of statement `why`: asyncio.run
\* cancels what is left.
Crash(why) ==
    /\ pc' = "crashed"
    /\ failure' = why
    /\ tasks' = <<>>
    /\ done' = {}

\* main.py:75-105 with the locals acc the loop over the chunk leaves.
Prepared(acc) ==
    /\ db' = acc.db
    /\ owner' = acc.owner
    /\ bal' = acc.bal
    /\ updated' = FALSE
    /\ IF acc.raised THEN Crash("owner")
       ELSE /\ tasks' = acc.tasks
            /\ done' = {}
            /\ failure' = failure
            /\ pc' = IF acc.tasks = <<>> THEN "archive" ELSE "balance"

\* main.py:72-105: the finder objects of the next chunk are created; after
\* the last chunk main goes on to its report.
Prepare ==
    /\ pc = "prepare"
    /\ IF chunk > NChunks(tokens)
       THEN /\ pc' = "report"
            /\ UNCHANGED <<db, owner, bal, tasks, done, updated, failure>>
       ELSE Prepared(prepare_loop(Chunk(tokens, chunk), 1,
                         [db |-> db, owner |-> owner, bal |-> bal,
                          tasks |-> <<>>, raised |-> FALSE]))
    /\ UNCHANGED <<chain, storage, tokens, holders, disk, sodb, run, faults,
                   delta_only, chunk, simdb, results, last, matched, previous, wave>>

\* Every finder object of the chunk made for the chunk's first token.
Finder_first(var, i, fault) ==
    [var |-> var, token |-> tasks[1].token, owner |-> tasks[1].owner,
     spender |-> Spender, k |-> chain[tasks[1].token],
     search_range |-> tasks[1][var], fault |-> fault]

\* The finder object of task i of the chunk for `var`, hit by `fault`.
Finder(var, i, fault) ==
    [var |-> var, token |-> tasks[i].token, owner |-> tasks[i].owner,
     spender |-> Spender, k |-> chain[tasks[i].token],
     search_range |-> tasks[i][var], fault |-> fault]

\* The storage locations the probes of a finder call wrote.
Written(log) ==
    {<<log[j].target, The(log[j].key)>> : j \in {n \in 1..Len(log) : log[n].wrote}}

\* The finder call of task i has ended with res (main.py:107-108): an
\* exception leaving find() leaves gather and main.  A fault is one that hit
\* a probe of the call.
Returned(var, next, i, fault, self, res) ==
    /\ fault.at <= Len(res.log)
    /\ db' = [db EXCEPT !.recs[self.token] = res.rec]
    /\ storage' = res.st
    /\ last' = [self |-> self, before |-> db.recs[self.token], res |-> res]
    /\ wave' = (i :> Written(res.log)) @@ (IF done = {} THEN <<>> ELSE wave)
    /\ matched' = IF res.ret = "True"
                  THEN (<<self.token, var>> :> res.log[Len(res.log)]) @@ matched
                  ELSE matched
    /\ IF res.ret = "raised"
       THEN Crash("finder") /\ UNCHANGED updated
       ELSE /\ updated' = (updated \/ res.ret = "True")
            /\ tasks' = tasks
            /\ failure' = failure
            /\ IF done \cup {i} = 1..Len(tasks)
               THEN done' = {} /\ pc' = next
               ELSE done' = done \cup {i} /\ pc' = pc

\* One finder task of the running wave runs find().
RunFinder(var, next) ==
    \E i \in (1..Len(tasks)) \ done : \E fault \in Faults :
        /\ fault = NoFault \/ faults < MaxFaults
        /\ faults' = IF fault = NoFault THEN faults ELSE faults + 1
        /\ Returned(var, next, i, fault, Finder(var, i, fault),
                    find(Finder(var, i, fault), db.recs[tasks[i].token], storage))

\* The balance wave running the allowance finders.
BalanceFind_allowance ==
    /\ pc = "balance"
    /\ RunFinder("allowance", "allowance")
    /\ UNCHANGED <<chain, tokens, holders, disk, sodb, run, delta_only, chunk,
                   owner, bal, simdb, results, previous>>

\* main.py:107: the balance finders of the chunk are gathered.
BalanceFind ==
    /\ pc = "balance"
    /\ RunFinder("balance", "allowance")
    /\ UNCHANGED <<chain, tokens, holders, disk, sodb, run, delta_only, chunk,
                   owner, bal, simdb, results, previous>>

\* main.py:108: then the allowance finders of the chunk.
AllowanceFind ==
    /\ pc = "allowance"
    /\ RunFinder("allowance", "archive")
    /\ UNCHANGED <<chain, tokens, holders, disk, sodb, run, delta_only, chunk,
                   owner, bal, simdb, results, previous>>

\* main.py:113-116: every record without a symbol takes the token list's.
WithSymbols(d) ==
    [keys |-> d.keys,
     recs |-> [t \in DOMAIN d.recs |-> [d.recs[t] EXCEPT !.symbol = TRUE]]]

\* The end of a chunk taken when the balance wave is over, while the
\* allowance tasks are still to run.
ChunkEnd_early ==
    /\ pc = "allowance"
    /\ IF \E t \in DOMAIN db.recs : ~db.recs[t].symbol /\ t \notin Range(tokens)
       THEN Crash("symbol") /\ UNCHANGED <<db, disk, chunk>>
       ELSE /\ failure' = failure
            /\ db' = IF updated THEN archive(WithSymbols(db)) ELSE WithSymbols(db)
            /\ disk' = IF updated THEN Some(archive(WithSymbols(db))) ELSE disk
            /\ chunk' = chunk + 1
            /\ pc' = "prepare"
            /\ tasks' = <<>>
            /\ done' = {}
    /\ last' = NoCall
    /\ wave' = <<>>
    /\ UNCHANGED <<chain, storage, tokens, holders, sodb, run, faults, delta_only,
                   owner, bal, updated, simdb, results, matched, previous>>

\* main.py:110-124: the end of a chunk.  tokens_raw[key] raises KeyError for
\* a record without symbol whose token is not in the token list.
ChunkEnd ==
    /\ pc = "archive"
    /\ IF \E t \in DOMAIN db.recs : ~db.recs[t].symbol /\ t \notin Range(tokens)
       THEN Crash("symbol") /\ UNCHANGED <<db, disk, chunk>>
       ELSE /\ failure' = failure
            /\ db' = IF updated THEN archive(WithSymbols(db)) ELSE WithSymbols(db)
            /\ disk' = IF updated THEN Some(archive(WithSymbols(db))) ELSE disk
            /\ chunk' = chunk + 1
            /\ pc' = "prepare"
            /\ tasks' = <<>>
            /\ done' = {}
    /\ last' = NoCall
    /\ wave' = <<>>
    /\ UNCHANGED <<chain, storage, tokens, holders, sodb, run, faults, delta_only,
                   owner, bal, updated, simdb, results, matched, previous>>

\* main.py:128-171: the coverage report reads every record's balance and
\* allowance and divides by the number of records; the archive file is then
\* read back.
Report ==
    /\ pc = "report"
    /\ IF \/ \E t \in DOMAIN db.recs :
                IsNone(db.recs[t].balance) \/ IsNone(db.recs[t].allowance)
          \/ Len(db.keys) = 0
       THEN Crash("report") /\ UNCHANGED <<simdb, chunk>>
       ELSE IF IsNone(disk)
       THEN Crash("read") /\ UNCHANGED <<simdb, chunk>>
       ELSE /\ simdb' = The(disk)
            /\ failure' = failure
            /\ chunk' = 1
            /\ pc' = "simulate"
            /\ tasks' = Chunk(The(disk).keys, 1)
            /\ done' = {}
    /\ results' = <<>>
    /\ UNCHANGED <<chain, storage, tokens, holders, disk, db, sodb, run, faults,
                   delta_only, owner, bal, updated, last, matched, previous, wave>>

\* main.py:193-195: the records of the simulated tokens take their result.
Patched(d, res) ==
    [keys |-> d.keys,
     recs |-> [t \in DOMAIN d.recs |->
                  IF t \in DOMAIN res
                  THEN [d.recs[t] EXCEPT !.complex = res[t].complex]
                  ELSE d.recs[t]]]

\* What is kept of a simulate() call that ended with r.
ResultOf(r, outcome) ==
    [complex |-> r.complex, doc |-> r.doc, called |-> r.called,
     raised |-> r.raised, outcome |-> IF r.called THEN outcome ELSE "none"]

\* The simulate() task of token tasks[i] has ended with r (main.py:190-195):
\* an exception leaves gather and main; after the chunk's last task the
\* records are patched and the next chunk begins.
Simulated(i, outcome, r) ==
    /\ results' = (tasks[i] :> ResultOf(r, outcome)) @@ results
    /\ IF r.raised
       THEN Crash("simulate") /\ UNCHANGED <<simdb, chunk>>
       ELSE IF done \cup {i} # 1..Len(tasks)
       THEN /\ done' = done \cup {i}
            /\ UNCHANGED <<pc, tasks, simdb, chunk, failure>>
       ELSE /\ simdb' = Patched(simdb, (tasks[i] :> ResultOf(r, outcome)) @@ results)
            /\ done' = {}
            /\ chunk' = chunk + 1
            /\ tasks' = Chunk(simdb.keys, chunk + 1)
            /\ pc' = IF chunk + 1 > NChunks(simdb.keys)
                     THEN "persist" ELSE "simulate"
            /\ failure' = failure

\* One simulate() task of the chunk runs (main.py:175-190); force_sim is
\* true, so every token of the chunk has one (no key of the archive is on
\* the skip list: main never constructs a finder for such a token).
Simulate ==
    /\ pc = "simulate"
    /\ \E i \in (1..Len(tasks)) \ done : \E outcome \in OutcomesOf(tasks[i]) :
          Simulated(i, outcome,
                    simulate(sodb, tasks[i], DefaultOwner, Recipient, outcome))
    /\ UNCHANGED <<chain, storage, tokens, holders, disk, db, sodb, run, faults,
                   delta_only, owner, bal, updated, last, matched, previous, wave>>

\* main.py:201-216: the complex report reads every record's "complex"; the
\* archive file is written.
Persist ==
    /\ pc = "persist"
    /\ IF \E t \in DOMAIN simdb.recs : simdb.recs[t].complex = "absent"
       THEN Crash("complex") /\ UNCHANGED disk
       ELSE /\ disk' = Some(simdb)
            /\ pc' = "done"
            /\ UNCHANGED <<tasks, done, failure>>
    /\ UNCHANGED <<chain, storage, tokens, holders, db, sodb, run, faults,
                   delta_only, chunk, owner, bal, updated, simdb, results, last,
                   matched, previous, wave>>

\* The driver is started again on the same fork, lists and archive file:
\* after a completed run with either value of delta_only, after a failed one
\* with main's default.
Restart ==
    /\ pc \in {"done", "crashed"}
    /\ run < MaxRuns
    /\ run' = run + 1
    /\ db' = Load(disk)
    /\ sodb' = Load(disk)
    /\ delta_only' \in (IF pc = "done" THEN BOOLEAN ELSE {TRUE})
    /\ pc' = "prepare"
    /\ chunk' = 1
    /\ owner' = None
    /\ bal' = None
    /\ tasks' = <<>>
    /\ done' = {}
    /\ updated' = FALSE
    /\ simdb' = EmptyDb
    /\ results' = <<>>
    /\ last' = NoCall
    /\ failure' = "none"
    /\ previous' = IF pc = "done" /\ delta_only THEN disk ELSE None
    /\ wave' = <<>>
    /\ UNCHANGED <<chain, storage, tokens, holders, disk, faults, matched>>

Next ==
    \/ Prepare
    \/ BalanceFind
    \/ AllowanceFind
    \/ ChunkEnd
    \/ Report
    \/ Simulate
    \/ Persist
    \/ Restart

Spec == Init /\ [][Next]_vars


\* ------------------------------------------------------------------------
\* The claims
\* ------------------------------------------------------------------------

\* Whether a finder call has been made in this run, and its probes.
Called == DOMAIN last.res # {}
Probes == IF Called THEN last.res.log ELSE <<>>

\* The schema of the storage keys: H(pad(account) || word) for Solidity and
\* H(word || pad(account)) for Vyper.
SchemaKey(word, account, compiler) ==
    IF compiler = "solidity" THEN Keccak(Concat(EncodeAddress(account), word))
    ELSE Keccak(Concat(word, EncodeAddress(account)))

\* C1: in a single run, a token that was not in the archive at process start
\* and whose balance and allowance slots the run resolved gets a non-empty
\* override document in the transfer-from phase, and when transferFrom
\* returns true under the overrides it is recorded with complex = false.
C1_NewTokenSimulated ==
    \A t \in DOMAIN results :
        (/\ ~Has(sodb, t)
         /\ Resolved(simdb.recs[t], "balance")
         /\ Resolved(simdb.recs[t], "allowance"))
        => /\ results[t].doc # {}
           /\ results[t].called
           /\ results[t].outcome = "true" => results[t].complex = "false"

\* C2: find returns true exactly when the call newly records a slot, false
\* when the variable was already resolved or no slot was found; a call that
\* finds nothing leaves slot and target null, a call that finds a slot leaves
\* both non-null.
C2_FindContract ==
    Called =>
        /\ (last.res.ret = "True")
             <=> (/\ ~Resolved(last.before, last.self.var)
                  /\ Resolved(last.res.rec, last.self.var))
        /\ last.res.ret = "False"
             => \/ Resolved(last.before, last.self.var)
                \/ last.res.rec[last.self.var] = Some(Unresolved)
        /\ Resolved(last.before, last.self.var)
             => last.res.ret = "False" /\ last.res.rec = last.before
        /\ (~Resolved(last.before, last.self.var) /\ last.res.ret # "True")
             => last.res.rec[last.self.var] = Some(Unresolved)
        /\ last.res.ret = "True"
             => /\ IsSome(SlotOf(last.res.rec, last.self.var))
                /\ IsSome(TargetOf(last.res.rec, last.self.var))

\* A search that probed and found nothing.
C2_Witness ==
    /\ Called
    /\ last.res.ret = "False"
    /\ Len(last.res.log) > 0
    /\ last.res.rec[last.self.var] = Some(Unresolved)

\* C3: a probe that completes has read `starting`, written
\* probing = starting + 1000 * 10^18 at the derived key and read the view
\* again; it is a match iff the value read again is strictly greater than
\* `starting` (balance), iff it equals `probing` (allowance).  The storage
\* the call leaves holds `probing` at the key of its last probe.
C3_ProbeMatch ==
    \A i \in 1..Len(Probes) :
        Probes[i].res \in {"match", "nomatch"} =>
            /\ Probes[i].wrote
            /\ Probes[i].probing = Probes[i].starting + ProbeAmount
            /\ (/\ i = Len(Probes)
                /\ <<Probes[i].target, The(Probes[i].key)>> \in DOMAIN last.res.st)
                 => last.res.st[<<Probes[i].target, The(Probes[i].key)>>]
                        = Probes[i].probing
            /\ last.self.var = "balance"
                 => (Probes[i].res = "match"
                        <=> Probes[i].updated > Probes[i].starting)
            /\ last.self.var = "allowance"
                 => (Probes[i].res = "match"
                        <=> Probes[i].updated = Probes[i].probing)

\* An allowance probe whose value increased without being `probing`, and is
\* no match.
C3_Witness ==
    \E i \in 1..Len(Probes) :
        /\ last.self.var = "allowance"
        /\ Probes[i].res = "nomatch"
        /\ Probes[i].updated > Probes[i].starting
        /\ Probes[i].updated # Probes[i].probing

\* The override document simulate() built for token t from the record rec,
\* by the finder's key function.
DocOf(rec) ==
    { [holder |-> The(TargetOf(rec, "balance")),
       key |-> The(mapping_key(EncodeUint(The(SlotOf(rec, "balance"))),
                               DefaultOwner, rec.compiler)),
       value |-> BALANCE_OVERRIDE],
      [holder |-> The(TargetOf(rec, "allowance")),
       key |-> The(mapping_key(
                  The(mapping_key(EncodeUint(The(SlotOf(rec, "allowance"))),
                                  DefaultOwner, rec.compiler)),
                  Recipient, rec.compiler)),
       value |-> BALANCE_OVERRIDE] }

\* C4 (amended): for every slot, owner, spender and compiler in {Solidity,
\* Vyper} the finder and the override synthesizer derive the same key, the
\* one of the schema; the keys of a token's override document are those of
\* its recorded slots for the payer and the recipient, and a document key is
\* the key the matching probe wrote exactly when the probe's owner (and
\* spender) was the payer (and the recipient).
C4_SameKeys ==
    /\ \A slot \in 0..MAX_SLOT, o \in Owners, sp \in {Spender, Recipient},
          c \in {"solidity", "vyper"} :
          /\ mapping_key(EncodeUint(slot), o, c) = storage_key(EncodeUint(slot), o, c)
          /\ storage_key(EncodeUint(slot), o, c)
                = Some(SchemaKey(EncodeUint(slot), o, c))
          /\ mapping_key(The(mapping_key(EncodeUint(slot), o, c)), sp, c)
                = storage_key(The(storage_key(EncodeUint(slot), o, c)), sp, c)
          /\ storage_key(The(storage_key(EncodeUint(slot), o, c)), sp, c)
                = Some(SchemaKey(SchemaKey(EncodeUint(slot), o, c), sp, c))
    /\ \A t \in DOMAIN results :
          results[t].called =>
             /\ results[t].doc = DocOf(sodb.recs[t])
             /\ \A var \in {"balance", "allowance"} :
                   <<t, var>> \in DOMAIN matched =>
                      ((\E e \in results[t].doc :
                            e.key = The(matched[<<t, var>>].key))
                       <=> (/\ matched[<<t, var>>].owner = DefaultOwner
                            /\ var = "allowance"
                                 => matched[<<t, var>>].spender = Recipient))

\* A token probed with a holder as owner whose document has been built.
C4_Witness ==
    \E t \in DOMAIN results :
        /\ results[t].called
        /\ <<t, "balance">> \in DOMAIN matched
        /\ <<t, "allowance">> \in DOMAIN matched
        /\ matched[<<t, "balance">>].owner # DefaultOwner

\* C4 as stated: the keys of a token's override document are the keys the
\* matching probes wrote.
C4_DocKeyIsProbeKey ==
    \A t \in DOMAIN results :
        results[t].called =>
            \A var \in {"balance", "allowance"} :
                <<t, var>> \in DOMAIN matched =>
                    \E e \in results[t].doc :
                        e.key = The(matched[<<t, var>>].key)

\* C5: with a non-empty document simulate() classifies the token from the
\* call's outcome (true: simple; false, a revert or any call exception:
\* complex; undecodable output: complex unless the token is on the
\* forced-simple list) and returns a result in every one of these outcomes.
C5_SimulateClassifies ==
    \A t \in DOMAIN results :
        results[t].called =>
            /\ ~results[t].raised
            /\ results[t].complex =
                 (CASE results[t].outcome = "true" -> "false"
                    [] results[t].outcome = "nodata"
                         -> (IF t \in forced_simple_complexity
                             THEN "false" ELSE "true")
                    [] OTHER -> "true")

\* C6: a token that is absent from the archive, whose record is empty, whose
\* compiler is missing or one of whose slots is unresolved has an empty
\* document, and simulate() returns complex = true for it without calling
\* transferFrom, also when it is on the forced-simple list.
C6_EmptyDocument ==
    \A t \in DOMAIN results :
        (\/ ~Has(sodb, t)
         \/ EmptyRecord(sodb.recs[t])
         \/ sodb.recs[t].compiler = "absent"
         \/ (/\ IsSome(sodb.recs[t].balance) /\ IsSome(sodb.recs[t].allowance)
             /\ \/ ~Resolved(sodb.recs[t], "balance")
                \/ ~Resolved(sodb.recs[t], "allowance")))
        => /\ results[t].doc = {}
           /\ results[t].complex = "true"
           /\ ~results[t].called
           /\ ~results[t].raised

\* A token of the archive with a compiler and an unresolved slot, and a
\* token of the forced-simple list, both classified without a call.
C6_Witness ==
    \E t \in DOMAIN results, u \in DOMAIN results \cap forced_simple_complexity :
        /\ Has(sodb, t)
        /\ sodb.recs[t].compiler # "absent"
        /\ ~Resolved(sodb.recs[t], "balance") \/ ~Resolved(sodb.recs[t], "allowance")
        /\ results[t].complex = "true" /\ ~results[t].called
        /\ results[u].complex = "true" /\ ~results[u].called

\* The archives of the state: the dicts in memory and the file.
Archives == {db, sodb, simdb} \cup (IF IsNone(disk) THEN {} ELSE {The(disk)})

\* C7: in every archive and for every token, a resolved balance or allowance
\* slot comes with a compiler that is Solidity or Vyper; Unknown is never
\* written, also when the sniffer returned Unknown and the slot was found on
\* a fallback target.
C7_CompilerKnown ==
    \A d \in Archives : \A t \in DOMAIN d.recs :
        /\ d.recs[t].compiler \in {"absent", "solidity", "vyper"}
        /\ (Resolved(d.recs[t], "balance") \/ Resolved(d.recs[t], "allowance"))
             => d.recs[t].compiler \in {"solidity", "vyper"}

\* The sniffer returned Unknown and the slot was found on a fallback target.
C7_Witness ==
    /\ Called
    /\ last.res.ret = "True"
    /\ last.res.original_compiler = "unknown"
    /\ TargetOf(last.res.rec, last.self.var) # Some(last.self.token)
    /\ Resolved(db.recs[last.self.token], last.self.var)

\* C8: a rejected storage write or a transport error on a probe is absorbed:
\* the search goes on with the next slot and the finder call returns.
C8_FaultAbsorbed ==
    \A i \in 1..Len(Probes) :
        Probes[i].res \in {"Rejected", "Exception"} =>
            last.res.ret # "raised"

\* C9: a probe that fails with CallError ends the whole search of the
\* (token, variable): no further probe is issued and the variable is left
\* unresolved.
C9_CallErrorAbandons ==
    \A i \in 1..Len(Probes) :
        Probes[i].res = "CallError" =>
            /\ i = Len(Probes)
            /\ ~Resolved(last.res.rec, last.self.var)

\* C10: for a token without a recorded compiler the detection returns what
\* the bytecode's metadata markers and prefixes say, Unknown only when none
\* matches, and a sniffed token is probed under the sniffed convention only.
C10_Sniffed ==
    (/\ Called
     /\ last.res.original_compiler # "skipped"
     /\ last.before.compiler = "absent")
    => /\ last.res.original_compiler = Sniff(CodeOf(last.self.k.code))
       /\ Sniff(CodeOf(last.self.k.code)) # "unknown"
            => \A i \in 1..Len(Probes) :
                   Probes[i].compiler = Sniff(CodeOf(last.self.k.code))

\* C11: in _find_iterate with compiler Unknown every slot of the schedule is
\* probed under Solidity before any slot is probed under Vyper on the same
\* contract and view, Vyper is tried only if the Solidity pass found nothing,
\* and the compiler recorded with a found slot is the convention of the
\* matching probe; with compiler Solidity or Vyper only it is probed.
C11_SolidityFirst ==
    Called =>
        /\ \A j \in 1..Len(Probes) :
              /\ (last.res.original_compiler = "unknown" /\ Probes[j].compiler = "vyper")
                   => \A s \in Range(last.self.search_range) :
                         \E i \in 1..(j - 1) :
                            /\ Probes[i].compiler = "solidity"
                            /\ Probes[i].target = Probes[j].target
                            /\ Probes[i].fn = Probes[j].fn
                            /\ Probes[i].slot = s
                            /\ Probes[i].res # "match"
              /\ last.res.original_compiler \in {"solidity", "vyper"}
                   => Probes[j].compiler = last.res.original_compiler
        /\ last.res.ret = "True"
             => last.res.rec.compiler = Probes[Len(Probes)].compiler

\* The tokens of archive d that record a slot for var, the slots they
\* record, how many record slot v and the place of the first that does.
Recording(d, var) == {i \in 1..Len(d.keys) : IsSome(SlotOf(d.recs[d.keys[i]], var))}
Recorded(d, var) == {The(SlotOf(d.recs[d.keys[i]], var)) : i \in Recording(d, var)}
Frequency(d, var, v) ==
    Cardinality({i \in Recording(d, var) : The(SlotOf(d.recs[d.keys[i]], var)) = v})
FirstSeen(d, var, v) ==
    CHOOSE i \in Recording(d, var) :
        /\ The(SlotOf(d.recs[d.keys[i]], var)) = v
        /\ \A j \in Recording(d, var) :
              The(SlotOf(d.recs[d.keys[j]], var)) = v => i <= j

\* s is the schedule the archive d determines for var.
IsSchedule(s, d, var) ==
    /\ Range(s) = Recorded(d, var) \cup (0..(MAX_SLOT - 1))
    /\ Len(s) = Cardinality(Range(s))
    /\ \A i, j \in 1..Len(s) :
          i < j =>
             \/ /\ s[i] \in Recorded(d, var)
                /\ s[j] \in Recorded(d, var)
                /\ \/ Frequency(d, var, s[i]) > Frequency(d, var, s[j])
                   \/ /\ Frequency(d, var, s[i]) = Frequency(d, var, s[j])
                      /\ FirstSeen(d, var, s[i]) < FirstSeen(d, var, s[j])
             \/ s[i] \in Recorded(d, var) /\ s[j] \notin Recorded(d, var)
             \/ /\ s[i] \notin Recorded(d, var)
                /\ s[j] \notin Recorded(d, var)
                /\ s[i] < s[j]

\* The place of slot v in the schedule s.
PlaceOf(s, v) == CHOOSE i \in 1..Len(s) : s[i] = v

\* C12: the schedule of each finder object is the one the archive determines
\* (recorded slots by descending frequency, first occurrence first among
\* equals, then the other indices of 0..MAX_SLOT-1 ascending, each index
\* once), and each pass of a finder call probes the slots in that order from
\* the first one on.
C12_Schedule ==
    /\ (pc = "balance" /\ done = {} /\ ~Called)
         => \A i \in 1..Len(tasks) :
               /\ IsSchedule(tasks[i].balance, db, "balance")
               /\ IsSchedule(tasks[i].allowance, db, "allowance")
    /\ Called
         => \A j \in 1..Len(Probes) :
               /\ Probes[j].slot \in Range(last.self.search_range)
               /\ IF /\ j > 1
                     /\ Probes[j - 1].target = Probes[j].target
                     /\ Probes[j - 1].fn = Probes[j].fn
                     /\ Probes[j - 1].compiler = Probes[j].compiler
                  THEN PlaceOf(last.self.search_range, Probes[j].slot)
                          = PlaceOf(last.self.search_range, Probes[j - 1].slot) + 1
                  ELSE Probes[j].slot = last.self.search_range[1]

\* Finder objects are created on an archive in which a slot first seen later
\* is the more frequent one, and a finder call has probed a whole schedule
\* that is not the ascending one.
C12_Witness ==
    \/ /\ pc = "balance" /\ done = {} /\ ~Called /\ tasks # <<>>
       /\ \E v, w \in Recorded(db, "allowance") :
             /\ FirstSeen(db, "allowance", v) < FirstSeen(db, "allowance", w)
             /\ Frequency(db, "allowance", v) < Frequency(db, "allowance", w)
    \/ /\ Called
       /\ last.self.search_range # Ascending(0..(MAX_SLOT - 1))
       /\ \E j \in 1..Len(Probes) :
             Probes[j].slot = last.self.search_range[Len(last.self.search_range)]

\* C13: whatever the loaded archive records, every probe of a finder call
\* is at a slot index of 0..MAX_SLOT-1, and no finder records a slot of
\* MAX_SLOT or above.
C13_WithinMaxSlot ==
    /\ Called => \A j \in 1..Len(Probes) : Probes[j].slot \in 0..(MAX_SLOT - 1)
    /\ \A f \in DOMAIN matched : matched[f].slot \in 0..(MAX_SLOT - 1)

\* The owner the probes of token t are to be made for: the first listed
\* holder whose balanceOf is positive, the default address without one.
RECURSIVE FirstPositive(_, _, _)
FirstPositive(t, list, i) ==
    IF i > Len(list) THEN DefaultOwner
    ELSE IF BalanceView(chain[t], t, "balanceOf", list[i], storage).ok
            /\ BalanceView(chain[t], t, "balanceOf", list[i], storage).v > 0
    THEN list[i]
    ELSE FirstPositive(t, list, i + 1)
ProbeOwner(t) ==
    IF t \in DOMAIN holders THEN FirstPositive(t, holders[t], 1) ELSE DefaultOwner
LookupFails(t) ==
    /\ t \in DOMAIN holders
    /\ \E i \in 1..Len(holders[t]) :
          ~BalanceView(chain[t], t, "balanceOf", holders[t][i], storage).ok

\* C14: the finder objects of a chunk are created for the first listed holder
\* of the token with a positive balance, for the default address when no
\* listed holder has one or the token has no holder list, and not at all
\* for a token whose holder balance lookup fails; the choice of the owner
\* does not end the driver.
C14_ProbeOwner ==
    /\ (pc = "balance" /\ done = {} /\ ~Called)
         => \A i \in 1..Len(tasks) :
               /\ ~LookupFails(tasks[i].token)
               /\ tasks[i].owner = ProbeOwner(tasks[i].token)
    /\ failure # "owner"

\* C15: a run with delta_only that follows a completed run with delta_only
\* on the same lists and fork creates no finder object, makes no probe and
\* leaves the archive file as the first run left it.
C15_SecondRunIdle ==
    (IsSome(previous) /\ delta_only)
       => /\ pc \notin {"balance", "allowance"}
          /\ ~Called
          /\ pc = "done" => disk = previous

\* C16: when the driver completes, the archive file holds a record of every
\* token of the in-memory archive, with the balance and allowance entries
\* the finders left there (slot and target null where nothing was found).
C16_Durable ==
    pc = "done"
       => \A t \in DOMAIN db.recs :
             /\ Has(The(disk), t)
             /\ The(disk).recs[t].balance = db.recs[t].balance
             /\ The(disk).recs[t].allowance = db.recs[t].allowance

\* C17: whatever the lists, the chain and the archive at the start, no
\* statement of the driver other than the reading or writing of the archive
\* file ends the process: the run goes on to complete both phases.
C17_Completes == failure \in {"none", "read"}

\* The contracts behind token t of behaviour k for a finder of var: the
\* address the first answering first-level accessor returns, and the one its
\* first answering second-level accessor returns (None: no accessor answers).
FirstAnswering(k, t, contract, names) ==
    IF \E i \in 1..Len(names) : IsSome(AccessorCall(k, t, contract, names[i]))
    THEN Some(CHOOSE i \in 1..Len(names) :
                 /\ IsSome(AccessorCall(k, t, contract, names[i]))
                 /\ \A j \in 1..(i - 1) : IsNone(AccessorCall(k, t, contract, names[j])))
    ELSE None
OneLevel(k, t, var) ==
    IF IsNone(FirstAnswering(k, t, t, FirstLevel(var))) THEN None
    ELSE AccessorCall(k, t, t, FirstLevel(var)[The(FirstAnswering(k, t, t, FirstLevel(var)))])
SecondNames(k, t, var) ==
    IF IsNone(FirstAnswering(k, t, t, FirstLevel(var))) THEN <<>>
    ELSE SecondLevel(FirstLevel(var)[The(FirstAnswering(k, t, t, FirstLevel(var)))])
TwoLevel(k, t, var) ==
    IF IsNone(OneLevel(k, t, var)) THEN None
    ELSE IF IsNone(FirstAnswering(k, t, The(OneLevel(k, t, var)), SecondNames(k, t, var)))
    THEN None
    ELSE AccessorCall(k, t, The(OneLevel(k, t, var)),
             SecondNames(k, t, var)[The(FirstAnswering(k, t, The(OneLevel(k, t, var)),
                                                       SecondNames(k, t, var)))])

\* How deep behind the token the contract addr is for the finder `self`.
LevelOf(self, addr) ==
    IF addr = self.token THEN 0
    ELSE IF Some(addr) = OneLevel(self.k, self.token, self.var) THEN 1
    ELSE IF Some(addr) = TwoLevel(self.k, self.token, self.var) THEN 2
    ELSE 3

\* From one probe to the next the search stays on its contract or goes one
\* level deeper.
Deepens(from, to) == to = from \/ to = from + 1

\* C18: a finder call probes a contract behind the token only after its
\* probes of the token matched nothing (and the second-level contract only
\* after the first-level one), the contracts it probes are the token, the
\* address of the first answering first-level accessor and the address of
\* that accessor's second-level accessor, and the target recorded with a
\* slot is the contract the matching probe wrote.
C18_Target ==
    Called =>
        /\ \A j \in 1..Len(Probes) :
              /\ LevelOf(last.self, Probes[j].target) <= 2
              /\ IF j = 1 THEN Probes[j].target = last.self.token
                 ELSE /\ Probes[j - 1].res # "match"
                      /\ Deepens(LevelOf(last.self, Probes[j - 1].target),
                                 LevelOf(last.self, Probes[j].target))
        /\ last.res.ret = "True"
              => /\ Probes[Len(Probes)].res = "match"
                 /\ Probes[Len(Probes)].wrote
                 /\ TargetOf(last.res.rec, last.self.var)
                       = Some(Probes[Len(Probes)].target)

\* A slot was found on the second-level contract.
C18_Witness ==
    /\ Called
    /\ last.res.ret = "True"
    /\ TargetOf(last.res.rec, last.self.var) = TwoLevel(last.self.k, last.self.token, last.self.var)
    /\ \E i, j \in 1..Len(Probes) :
          /\ LevelOf(last.self, Probes[i].target) = 0
          /\ LevelOf(last.self, Probes[j].target) = 1

\* The contracts of token t of behaviour k: the token, the contract that
\* holds its mappings and the addresses its accessors return.
AccessorNames ==
    {"target", "balances", "allowances", "erc20Impl", "tokenState", "erc20Store"}
ContractsOf(k, t) ==
    {t, HolderContract(k, t)}
       \cup {The(a) : a \in {AccessorCall(k, t, c, n) :
                                c \in {t, ImplBehind(k, t)}, n \in AccessorNames}
                             \ {None}}
SeparateTasks(i, j) ==
    /\ i # j
    /\ tasks[i].token # tasks[j].token
    /\ ContractsOf(chain[tasks[i].token], tasks[i].token)
          \cap ContractsOf(chain[tasks[j].token], tasks[j].token) = {}
InWave == pc \in {"balance", "allowance", "archive"}

\* C19 (amended): two finder tasks of one wave for different tokens that
\* share no contract (token, holder of the mappings, accessor results) write
\* no common storage location, and neither writes a location the views of
\* the other's token read.
C19_DisjointWrites ==
    InWave =>
       \A i, j \in DOMAIN wave :
          SeparateTasks(i, j) =>
             /\ wave[i] \cap wave[j] = {}
             /\ wave[i] \cap LocsOf(chain[tasks[j].token], tasks[j].token) = {}

\* Two tasks of one wave for tokens that share no contract have both written.
C19_Witness ==
    /\ InWave
    /\ \E i, j \in DOMAIN wave :
          SeparateTasks(i, j) /\ wave[i] # {} /\ wave[j] # {}

\* C19 as stated: two finder tasks of one wave for different tokens write no
\* common storage location.
C19_AnyTokens ==
    InWave =>
       \A i, j \in DOMAIN wave :
          (i # j /\ tasks[i].token # tasks[j].token) => wave[i] \cap wave[j] = {}

\* While finder tasks are in flight the chunk has one task per token, and
\* once an allowance finder has run, the balance finder of every task of the
\* chunk has run (its record has the balance entry find() sets first).
OneTaskPerToken ==
    (pc \in {"balance", "allowance"})
       => /\ \A i, j \in 1..Len(tasks) : tasks[i].token = tasks[j].token => i = j
          /\ (Called /\ last.self.var = "allowance")
                => \A i \in 1..Len(tasks) : IsSome(db.recs[tasks[i].token].balance)
          /\ pc = "balance" => \A i \in DOMAIN wave : Called /\ last.self.var = "balance"

\* A step taken while finder tasks are in flight changes the record of a
\* token only if it is the call of a finder of that token.
OwnRecordOnly ==
    (pc \in {"balance", "allowance"})
       => \A t \in DOMAIN db.recs :
             db'.recs[t] # db.recs[t] => (last' # last /\ last'.self.token = t)

\* C20: within a batch at most one finder task of a token is in flight: the
\* chunk has one task per token, every balance task has completed before an
\* allowance task probes, and the record of a token is written only by the
\* task probing that token.
C20_OneInFlight == []OneTaskPerToken /\ [][OwnRecordOnly]_vars

\* The allowance finder of a chunk of two tokens has probed.
C20_Witness ==
    /\ pc = "allowance"
    /\ Len(tasks) >= 2
    /\ Called
    /\ last.self.var = "allowance"
    /\ Len(Probes) > 0
    /\ db.recs[last.self.token] # last.before

\* Every finder task of the chunk has returned: the allowance wave is the
\* one that ended last and holds every task, no task is left to return, and
\* each token of the chunk has the entries both of its finders leave.
ChunkComplete ==
    /\ pc = "archive"
    /\ done = {}
    /\ tasks # <<>>
    /\ DOMAIN wave = 1..Len(tasks)
    /\ Called /\ last.self.var = "allowance"
    /\ \A i \in 1..Len(tasks) :
          /\ IsSome(db.recs[tasks[i].token].balance)
          /\ IsSome(db.recs[tasks[i].token].allowance)

\* A step that changes the archive file is the archive() of a chunk whose
\* tasks have all returned, and the file then holds the entries of the
\* in-memory archive; or it is the final write of main.
WrittenAtBoundary ==
    disk' # disk
       => \/ /\ ChunkComplete
             /\ IsSome(disk')
             /\ The(disk').keys = db.keys
             /\ \A t \in DOMAIN db.recs :
                   /\ The(disk').recs[t].balance = db.recs[t].balance
                   /\ The(disk').recs[t].allowance = db.recs[t].allowance
          \/ pc = "persist"

\* C21: the archive is written only at a batch boundary: when archive() runs
\* every balance and allowance task of the chunk has completed, so the file
\* never holds the state of a search in flight.
C21_BatchBoundary == [][WrittenAtBoundary]_vars

\* The first chunk, of two tokens, has been archived.
C21_Witness ==
    /\ run = 1
    /\ tokens = FullList
    /\ pc = "prepare"
    /\ chunk = 2
    /\ IsSome(disk)
    /\ Len(The(disk).keys) >= 2
    /\ \A t \in DOMAIN The(disk).recs : IsSome(The(disk).recs[t].allowance)

\* The holders of an override document and the keys of a holder's stateDiff.
HoldersOf(doc) == {e.holder : e \in doc}
StateDiffKeys(doc, h) == {e.key : e \in {x \in doc : x.holder = h}}

\* The balance key and the allowance key of record rec for the simulation's
\* payer and recipient.
BalanceKey(rec) ==
    SchemaKey(EncodeUint(The(SlotOf(rec, "balance"))), DefaultOwner, rec.compiler)
AllowanceKey(rec) ==
    SchemaKey(SchemaKey(EncodeUint(The(SlotOf(rec, "allowance"))),
                        DefaultOwner, rec.compiler),
              Recipient, rec.compiler)

\* The document doc is the one of record rec: every entry carries 2^95-1;
\* one holder with both keys when the targets are equal, else two holders
\* with one key each.
DocumentFor(doc, rec) ==
    /\ \A e \in doc : e.value = BALANCE_OVERRIDE
    /\ BalanceKey(rec) # AllowanceKey(rec)
    /\ IF TargetOf(rec, "balance") = TargetOf(rec, "allowance")
       THEN /\ HoldersOf(doc) = {The(TargetOf(rec, "balance"))}
            /\ StateDiffKeys(doc, The(TargetOf(rec, "balance")))
                  = {BalanceKey(rec), AllowanceKey(rec)}
       ELSE /\ HoldersOf(doc)
                  = {The(TargetOf(rec, "balance")), The(TargetOf(rec, "allowance"))}
            /\ Cardinality(HoldersOf(doc)) = 2
            /\ StateDiffKeys(doc, The(TargetOf(rec, "balance"))) = {BalanceKey(rec)}
            /\ StateDiffKeys(doc, The(TargetOf(rec, "allowance"))) = {AllowanceKey(rec)}

\* C22: for a token whose record has both variables resolved, the override
\* document maps each holder contract to a stateDiff of entries 2^95-1: one
\* holder with the balance key and the allowance key when the two targets
\* are equal, otherwise two holders, each with its own key only.
C22_OverrideDocument ==
    \A t \in DOMAIN results :
        (/\ Has(sodb, t)
         /\ Resolved(sodb.recs[t], "balance")
         /\ Resolved(sodb.recs[t], "allowance"))
        => DocumentFor(results[t].doc, sodb.recs[t])

\* Documents have been built for a token with one holder for both variables
\* and for a token with two.
C22_Witness ==
    \E t, u \in DOMAIN results :
        /\ Has(sodb, t) /\ Has(sodb, u)
        /\ Resolved(sodb.recs[t], "balance") /\ Resolved(sodb.recs[t], "allowance")
        /\ Resolved(sodb.recs[u], "balance") /\ Resolved(sodb.recs[u], "allowance")
        /\ TargetOf(sodb.recs[t], "balance") = TargetOf(sodb.recs[t], "allowance")
        /\ TargetOf(sodb.recs[u], "balance") # TargetOf(sodb.recs[u], "allowance")
        /\ Cardinality(results[t].doc) = 2
        /\ Cardinality(results[u].doc) = 2

\* Archive e keeps every token of archive d, and the slot and target of
\* every variable d has resolved.
Keeps(d, e) ==
    \A t \in DOMAIN d.recs :
        /\ Has(e, t)
        /\ \A var \in {"balance", "allowance"} :
              Resolved(d.recs[t], var) => e.recs[t][var] = d.recs[t][var]

\* A step of a driver process keeps the finders' archive and main's copy of
\* it; every step keeps the archive file once there is one.
Upserted ==
    /\ run' = run => Keeps(db, db')
    /\ (run' = run /\ pc = "simulate") => Keeps(simdb, simdb')
    /\ IsSome(disk) => (IsSome(disk') /\ Keeps(The(disk), The(disk')))

\* C23: across finder calls, chunk archives and the final write no token
\* entry is removed from the in-memory or the persisted archive, and a
\* resolved variable keeps its slot and target.
C23_NeverDeleted == [][Upserted]_vars

\* In a later run a finder has been called on a token whose variable was
\* resolved, and has left the record as it was.
C23_Witness ==
    /\ run > 1
    /\ Called
    /\ last.self.token \notin SKIPS
    /\ Resolved(last.before, last.self.var)
    /\ last.res.rec = last.before

\* C24: the probe owner of a token, and whether the token is probed, depend
\* only on the token's own holder list and the balances read for it: a
\* finder object created for a token in a chunk has the owner the driver
\* picks for that token when no token is processed before it, and the driver
\* then picks one.
C24_OwnerOfTokenOnly ==
    (pc = "balance" /\ done = {} /\ ~Called)
       => \A i \in 1..Len(tasks) :
             /\ ~pick_owner(tasks[i].token, None, None).raised
             /\ pick_owner(tasks[i].token, None, None).owner = Some(tasks[i].owner)

====
